---- MODULE Spec2Model ----
(***************************************************************************)
(* Model of the goaider command line tool: the two batch commands that     *)
(* call the remote generation API, `stt` (speech to text) and `caption`    *)
(* (image captioning), with their retry loops.                             *)
(*                                                                         *)
(* Text is a sequence of one-character strings.  A file name is the        *)
(* sequence of its dot-separated components: <<"b", "WAV", "txt">> is      *)
(* "b.WAV.txt".  The extension of a name is its last component.            *)
(***************************************************************************)
EXTENDS Integers, Sequences, FiniteSets, TLC

VARIABLES
    cmd,            \* the subcommand of this invocation: "stt" or "caption"
    flagForce,      \* --force
    flagIdentity,   \* --identity (caption only)
    fs,             \* the directory: name -> Absent, Dir or File(content)
    files,          \* os.ReadDir's listing of the invocation
    idx,            \* position of the batch loop in files (1-based)
    errorCnt,       \* errorCnt of the batch loop
    pc,             \* "loop": batch loop, "attempt": retry loop, "done": returned
    exitErr,        \* the N of the command's "N errors" result (0: nil), -1 before
    run,            \* number of the invocation, 1..MaxRuns
    prevErrorCnt,   \* errorCnt at the end of the previous invocation
    attempt,        \* loop index of the retry loop
    lastErr,        \* getTranscript's lastErr
    resp,           \* processImage's resp (NoResp: nil)
    reqErr,         \* processImage's reqErr (TRUE: non-nil)
    geminiResp,     \* processImage's geminiResp.Candidates
    delay,          \* processImage's delay, in seconds
    calls,          \* HTTP calls made for the current file
    sleeps,         \* time.Sleep calls made for the current file
    last,           \* what the transport answered to the latest call
    priorRetryable, \* every answer before `last` was a transient one
    only500,        \* every answer so far was HTTP 500
    outcome,        \* per name, in this invocation: none/skipped/succeeded/failed
    fileErr,        \* error returned for the file processed last (NoErr: nil)
    sent,           \* names sent to the remote API in this invocation
    fs0,            \* the directory as the invocation found it
    fnIn,           \* the input of the function applied on its own
    fnOut,          \* its result
    fnDone          \* TRUE once the function has been applied

vars == <<cmd, flagForce, flagIdentity, fs, files, idx, errorCnt, pc, exitErr,
          run, prevErrorCnt, attempt, lastErr, resp, reqErr, geminiResp, delay,
          calls, sleeps, last, priorRetryable, only500, outcome, fileErr, sent,
          fs0, fnIn, fnOut, fnDone>>

\* the variables of the checks of single functions
fnVars == <<fnIn, fnOut, fnDone>>

-----------------------------------------------------------------------------
(* Bounds of the model *)

\* largest number of entries of the directory at the start
MaxEntries == 3
\* number of invocations of the command on the same directory
MaxRuns == 2

-----------------------------------------------------------------------------
(* Program constants *)

sttMaxRetries == 4
captionMaxRetries == 3
\* caption's initial retry delay, in seconds
captionInitialDelay == 2

-----------------------------------------------------------------------------
(* Text *)

IsSpace(c) == c \in {" ", "\t", "\n", "\r"}

RECURSIVE TrimLeft(_)
TrimLeft(s) ==
    IF s # <<>> /\ IsSpace(Head(s)) THEN TrimLeft(Tail(s)) ELSE s

RECURSIVE TrimRight(_)
TrimRight(s) ==
    IF s # <<>> /\ IsSpace(s[Len(s)]) THEN TrimRight(SubSeq(s, 1, Len(s) - 1)) ELSE s

\* strings.TrimSpace
TrimSpace(s) == TrimRight(TrimLeft(s))

\* texts the model can return
TextHi == <<"h", "i">>
TextPadded == <<" ", "y", "o", "\n">>
TextBlank == <<" ">>
\* --identity values
Identities == {<<>>, <<"f">>}
\* content of a .txt file that was there before the first invocation
OldContent == <<"o", "l", "d">>

-----------------------------------------------------------------------------
(* File names *)

\* an entry of the directory
Absent == [kind |-> "absent", data |-> <<>>]
Dir == [kind |-> "dir", data |-> <<>>]
File(content) == [kind |-> "file", data |-> content]

\* filepath.Ext, without the dot; "" when the name has no dot
Ext(name) == IF Len(name) >= 2 THEN name[Len(name)] ELSE ""

\* strings.ToLower on the extensions of the model
ToLower(s) ==
    CASE s = "WAV" -> "wav"
      [] s = "PNG" -> "png"
      [] OTHER -> s

\* strings.TrimSuffix(name, "." + ext)
TrimSuffix(name, ext) ==
    IF Len(name) >= 2 /\ name[Len(name)] = ext
    THEN SubSeq(name, 1, Len(name) - 1)
    ELSE name

\* stt's getMimeType; "" is "not a supported type"
sttGetMimeType(ext) ==
    CASE ext = "wav" -> "audio/wav"
      [] ext = "mp3" -> "audio/mpeg"
      [] ext = "m4a" -> "audio/m4a"
      [] ext = "flac" -> "audio/flac"
      [] ext = "ogg" -> "audio/ogg"
      [] OTHER -> ""

isImageFile(name) == ToLower(Ext(name)) \in {"jpg", "jpeg", "png", "webp"}

\* stt: fileExt is the lower-cased extension, and it is that one TrimSuffix gets
outputTxtPath(name) == Append(TrimSuffix(name, ToLower(Ext(name))), "txt")

\* caption: ext is the extension as written
txtPath(name) == Append(TrimSuffix(name, Ext(name)), "txt")

\* the names a directory of the model can hold, in os.ReadDir's (byte) order
sttNames ==
    << <<"a", "mp3">>, <<"a", "txt">>, <<"a", "wav">>, <<"b", "WAV">>,
       <<"b", "WAV", "txt">>, <<"b", "txt">> >>

captionNames ==
    << <<"a", "PNG">>, <<"a", "jpg">>, <<"a", "txt">>, <<"c", "gif">>,
       <<"d", "png">> >>

AllNames(c) == IF c = "stt" THEN sttNames ELSE captionNames

NameSet(c) == {AllNames(c)[i] : i \in 1..Len(AllNames(c))}

\* the entry that is a subdirectory when present
IsDirName(name) == name[1] = "d"

\* os.ReadDir: the entries of the directory, sorted by name
ReadDir(c, dir) ==
    LET Present(n) == dir[n] # Absent
    IN  SelectSeq(AllNames(c), Present)

\* (mutant of Exists: the test of os.Stat's error is inverted)
ExistsInverted(dir, path) == dir[path] = Absent
\* os.Stat(path) returns no error
Exists(dir, path) == dir[path] # Absent

\* the sibling .txt of an eligible file, as each command computes it
OutputOf(c, name) == IF c = "stt" THEN outputTxtPath(name) ELSE txtPath(name)

\* the file passes the command's media filter
Eligible(c, dir, name) ==
    /\ dir[name] # Dir
    /\ IF c = "stt" THEN sttGetMimeType(ToLower(Ext(name))) # "" ELSE isImageFile(name)

-----------------------------------------------------------------------------
(* Errors and transport answers *)

\* a Go error: the format of its message, the status and the detail it prints
E(msg, status, detail) == [msg |-> msg, status |-> status, detail |-> detail]
NoErr == E("", 0, "")

\* What client.Do gives: a network error, or a response with a status and,
\* for a 200, a body.  body: "ok" parses as JSON, "malformed" does not,
\* "unreadable" fails while it is read.  block is promptFeedback.blockReason.
\* hasCands tells whether the JSON has a "candidates" key; cands is its value:
\* a list of candidates, each the list of its content.parts, each the text.
Answer(neterr, status, body, block, hasCands, cands) ==
    [neterr |-> neterr, status |-> status, body |-> body, block |-> block,
     hasCands |-> hasCands, cands |-> cands]

NetError == Answer(TRUE, 0, "none", "", FALSE, <<>>)
Status(s) == Answer(FALSE, s, "none", "", FALSE, <<>>)
Ok(hasCands, cands) == Answer(FALSE, 200, "ok", "", hasCands, cands)
Blocked(reason) == Answer(FALSE, 200, "ok", reason, FALSE, <<>>)
\* no http.Response yet
NoResp == Answer(FALSE, 0, "none", "", FALSE, <<>>)

\* the statuses other than 200 the remote API answers with in the model
ErrorStatuses == {401, 429, 500, 501}

Answers ==
    {NetError}
    \cup {Status(s) : s \in ErrorStatuses}
    \cup {Answer(FALSE, 200, b, "", FALSE, <<>>) : b \in {"malformed", "unreadable"}}
    \cup {Blocked("SAFETY")}
    \cup {Ok(FALSE, <<>>), Ok(TRUE, <<>>), Ok(TRUE, << <<>> >>)}
    \cup {Ok(TRUE, << <<t>> >>) : t \in {<<>>, TextBlank, TextPadded}}

-----------------------------------------------------------------------------
(* stt: getTranscript *)

\* (mutant of sttRetryableStatus: every status but 200 is retried)
sttRetryAnyNon200(s) == s # 200
\* the statuses of the retryable case of getTranscript's switch
sttRetryableStatus(s) == s \in {429, 500, 502, 503, 504}

\* json.Unmarshal into a fresh GeminiResponse: no key leaves the nil slice
sttCandidates(r) == IF r.hasCands THEN r.cands ELSE <<>>

\* One iteration of getTranscript's loop on the answer r.
\* ctl: "continue" (sleep and go on) or "return"; err, text: what is returned;
\* lastErr: lastErr after the iteration.
getTranscriptIter(r, le) ==
    LET Continue(e) == [ctl |-> "continue", err |-> NoErr, text |-> <<>>, lastErr |-> e]
        Fail(e) == [ctl |-> "return", err |-> e, text |-> <<>>, lastErr |-> le]
        Succeed(t) == [ctl |-> "return", err |-> NoErr, text |-> t, lastErr |-> le]
        c == sttCandidates(r)
    IN  IF r.neterr THEN Continue(E("request failed", 0, ""))
        ELSE IF r.status = 200 THEN
            IF r.body = "unreadable"
            THEN Fail(E("failed to read successful API response body", 0, ""))
            ELSE IF r.body = "malformed"
            THEN Fail(E("failed to unmarshal API response", 0, ""))
            ELSE IF r.block # ""
            THEN Fail(E("request was blocked", 0, r.block))
            ELSE IF Len(c) = 0 \/ Len(c[1]) = 0
            THEN Fail(E("no transcript content found in API response", 0, ""))
            ELSE Succeed(c[1][1])
        ELSE IF sttRetryableStatus(r.status)
        THEN Continue(E("API returned retryable status", r.status, ""))
        ELSE Fail(E("API request failed with non-retryable status", r.status, ""))

\* the error after the loop: all attempts failed, wrapping lastErr
sttExhaustedErr(le) == E("all retry attempts failed", le.status, le.msg)

-----------------------------------------------------------------------------
(* caption: processImage *)

\* json Decode into the geminiResp declared before the loop: a JSON without
\* the "candidates" key leaves the field as the earlier iteration set it
captionDecode(g, r) == IF r.hasCands THEN r.cands ELSE g

\* the "response is empty" condition, in the loop and after it
captionEmpty(g) == Len(g) = 0 \/ Len(g[1]) = 0 \/ g[1][1] = <<>>

\* the statuses processImage retries on
captionRetryableStatus(s) == s = 429 \/ s >= 500

\* One iteration of processImage's loop on the answer r, geminiResp being g.
\* ctl: "continue" (sleep, double the delay, go on), "break" or "return".
processImageIter(r, g) ==
    LET Ctl(c, e, g2) == [ctl |-> c, err |-> e, geminiResp |-> g2]
    IN  IF r.neterr THEN Ctl("continue", NoErr, g)
        ELSE IF captionRetryableStatus(r.status) THEN Ctl("continue", NoErr, g)
        ELSE IF r.status # 200 THEN Ctl("break", NoErr, g)
        ELSE IF r.body # "ok"
        THEN Ctl("return", E("failed to decode API response", 0, ""), g)
        ELSE IF captionEmpty(captionDecode(g, r))
        THEN Ctl("continue", NoErr, captionDecode(g, r))
        ELSE Ctl("break", NoErr, captionDecode(g, r))

\* a processImage that prefixes the identity to the untrimmed text
processImageAfterUntrimmed(rs, re, g, identity) ==
    LET Res(e, c) == [err |-> e, content |-> c]
    IN  IF re THEN Res(E("all retries failed", 0, "network"), <<>>)
        ELSE IF rs # NoResp /\ rs.status # 200
        THEN Res(E("API request failed with status", rs.status, ""), <<>>)
        ELSE IF captionEmpty(g)
        THEN Res(E("no caption generated (empty response from API)", 0, ""), <<>>)
        ELSE Res(NoErr, IF identity # <<>> THEN identity \o <<",", " ">> \o g[1][1]
                        ELSE TrimSpace(g[1][1]))

\* processImage after the loop, up to the content to write: err is the error
\* returned before any write (NoErr: none), content the final caption
processImageAfter(rs, re, g, identity) ==
    LET Res(e, c) == [err |-> e, content |-> c]
        trimmed == TrimSpace(g[1][1])
    IN  IF re THEN Res(E("all retries failed", 0, "network"), <<>>)
        ELSE IF rs # NoResp /\ rs.status # 200
        THEN Res(E("API request failed with status", rs.status, ""), <<>>)
        ELSE IF captionEmpty(g)
        THEN Res(E("no caption generated (empty response from API)", 0, ""), <<>>)
        ELSE Res(NoErr, IF identity # <<>> THEN identity \o <<",", " ">> \o trimmed
                        ELSE trimmed)

\* the number of iterations each retry loop makes at most
AttemptsAllowed(c) == IF c = "stt" THEN sttMaxRetries + 1 ELSE captionMaxRetries

-----------------------------------------------------------------------------
(* What the answers so far were, as the retry policy sorts them *)

\* the payload of a 200 lacks the expected text
PayloadLacksText(r) ==
    LET c == IF r.hasCands THEN r.cands ELSE <<>>
    IN  Len(c) = 0 \/ Len(c[1]) = 0 \/ c[1][1] = <<>>

\* a transient outcome: network error, 429, any 5xx, or a 200 without text
\* and without block reason
Transient(r) ==
    \/ r.neterr
    \/ ~r.neterr /\ (r.status = 429 \/ (r.status >= 500 /\ r.status <= 599))
    \/ ~r.neterr /\ r.status = 200 /\ r.body = "ok" /\ r.block = "" /\ PayloadLacksText(r)

-----------------------------------------------------------------------------
(* The state machine *)

Init ==
    /\ cmd \in {"stt", "caption"}
    /\ flagForce \in BOOLEAN
    /\ flagIdentity \in (IF cmd = "caption" THEN Identities ELSE {<<>>})
    /\ \E present \in SUBSET NameSet(cmd) :
          /\ Cardinality(present) <= MaxEntries
          /\ fs = [n \in NameSet(cmd) |->
                      IF n \notin present THEN Absent
                      ELSE IF IsDirName(n) THEN Dir ELSE File(OldContent)]
    /\ files = ReadDir(cmd, fs)
    /\ idx = 1
    /\ errorCnt = 0
    /\ pc = "loop"
    /\ exitErr = -1
    /\ run = 1
    /\ prevErrorCnt = 0
    /\ attempt = 0
    /\ lastErr = NoErr
    /\ resp = NoResp
    /\ reqErr = FALSE
    /\ geminiResp = <<>>
    /\ delay = 0
    /\ calls = 0
    /\ sleeps = 0
    /\ last = NoResp
    /\ priorRetryable = TRUE
    /\ only500 = TRUE
    /\ outcome = [n \in NameSet(cmd) |-> "none"]
    /\ fileErr = NoErr
    /\ sent = {}
    /\ fs0 = fs
    /\ fnIn = <<>>
    /\ fnOut = <<>>
    /\ fnDone = FALSE

flagVars == <<cmd, flagForce, flagIdentity, files, exitErr, run, prevErrorCnt,
              fs0, fnIn, fnOut, fnDone>>

\* the retry loop's variables as they are before the first attempt of a file
ClientReset ==
    /\ attempt' = 0
    /\ lastErr' = NoErr
    /\ resp' = NoResp
    /\ reqErr' = FALSE
    /\ geminiResp' = <<>>
    /\ delay' = IF cmd = "caption" THEN captionInitialDelay ELSE 0
    /\ calls' = 0
    /\ sleeps' = 0
    /\ last' = NoResp
    /\ priorRetryable' = TRUE
    /\ only500' = TRUE

\* a loop body that creates the output file before it knows the result
FinishedTruncating(name, st, err, newfs) ==
    /\ outcome' = [outcome EXCEPT ![name] = st]
    /\ errorCnt' = IF st = "failed" THEN errorCnt + 1 ELSE errorCnt
    /\ fileErr' = err
    /\ fs' = IF st = "failed"
             THEN [newfs EXCEPT ![OutputOf(cmd, name)] = File(<<>>)]
             ELSE newfs
    /\ idx' = idx + 1
    /\ pc' = "loop"

\* a loop body that returns from the command at the first failed file
FinishedAborting(name, st, err, newfs) ==
    /\ outcome' = [outcome EXCEPT ![name] = st]
    /\ errorCnt' = IF st = "failed" THEN errorCnt + 1 ELSE errorCnt
    /\ fileErr' = err
    /\ fs' = newfs
    /\ idx' = idx + 1
    /\ pc' = IF st = "failed" THEN "done" ELSE "loop"

\* a loop body that counts every file it did not write as an error
FinishedCountingSkipped(name, st, err, newfs) ==
    /\ outcome' = [outcome EXCEPT ![name] = st]
    /\ errorCnt' = IF st # "succeeded" THEN errorCnt + 1 ELSE errorCnt
    /\ fileErr' = err
    /\ fs' = newfs
    /\ idx' = idx + 1
    /\ pc' = "loop"

\* the batch loop is done with files[idx]: st is what became of it
Finished(name, st, err, newfs) ==
    /\ outcome' = [outcome EXCEPT ![name] = st]
    /\ errorCnt' = IF st = "failed" THEN errorCnt + 1 ELSE errorCnt
    /\ fileErr' = err
    /\ fs' = newfs
    /\ idx' = idx + 1
    /\ pc' = "loop"

\* the entry is passed over by the filter: `continue` with nothing recorded
PassOver ==
    /\ idx' = idx + 1
    /\ fileErr' = NoErr
    /\ UNCHANGED <<outcome, errorCnt, fs, pc, sent>>

\* os.ReadFile of the media file failed
ReadErr(c) ==
    E(IF c = "stt" THEN "error reading audio file" ELSE "failed to read image", 0, "")

\* The batch loop reaches files[idx]: filter, skip-if-exists and the read of
\* the file; a file that is read enters the retry loop.
BeginFile(c, skipIfExists) ==
    /\ cmd = c
    /\ pc = "loop"
    /\ idx <= Len(files)
    /\ LET name == files[idx]
       IN  /\ ClientReset
           /\ IF ~Eligible(c, fs, name) THEN PassOver
              ELSE IF skipIfExists /\ Exists(fs, OutputOf(c, name))
              THEN Finished(name, "skipped", NoErr, fs) /\ UNCHANGED sent
              ELSE \E readOk \in BOOLEAN :
                      IF ~readOk
                      THEN /\ Finished(name, "failed", ReadErr(c), fs)
                           /\ UNCHANGED sent
                      ELSE /\ pc' = "attempt"
                           /\ fileErr' = NoErr
                           /\ UNCHANGED <<outcome, errorCnt, fs, idx, sent>>
    /\ UNCHANGED flagVars

\* stt's loop body up to the call of getTranscript
SttFile == BeginFile("stt", ~flagForce)

\* caption's loop body and processImage up to its retry loop
CaptionFile == BeginFile("caption", ~flagForce)

\* what every attempt records about the transport
Observe(r) ==
    /\ calls' = calls + 1
    /\ last' = r
    /\ priorRetryable' = (priorRetryable /\ (calls = 0 \/ Transient(last)))
    /\ only500' = (only500 /\ ~r.neterr /\ r.status = 500)
    /\ sent' = sent \cup {files[idx]}

\* os.WriteFile of the result, then the end of the loop body.  os.WriteFile
\* opens the path with O_CREATE|O_TRUNC and then writes: a failed open leaves
\* the path as it was, a failed write leaves a truncated file (of the parts of
\* the content it may hold, the model keeps the shortest: nothing).
WriteResult(name, path, content, writeErr) ==
    \E w \in {"ok", "open failed", "write failed"} :
       IF w = "ok"
       THEN Finished(name, "succeeded", NoErr, [fs EXCEPT ![path] = File(content)])
       ELSE IF w = "open failed"
       THEN Finished(name, "failed", writeErr, fs)
       ELSE Finished(name, "failed", writeErr, [fs EXCEPT ![path] = File(<<>>)])

\* One iteration of getTranscript's loop; when getTranscript returns, the
\* rest of stt's loop body for the file.
SttAttempt ==
    /\ cmd = "stt"
    /\ pc = "attempt"
    /\ \E r \in Answers :
          LET name == files[idx]
              it == getTranscriptIter(r, lastErr)
          IN  /\ Observe(r)
              /\ lastErr' = it.lastErr
              /\ sleeps' = IF it.ctl = "continue" THEN sleeps + 1 ELSE sleeps
              /\ attempt' = IF it.ctl = "continue" THEN attempt + 1 ELSE attempt
              /\ IF it.ctl = "continue" /\ attempt + 1 <= sttMaxRetries
                 THEN UNCHANGED <<outcome, errorCnt, fileErr, fs, idx, pc>>
                 ELSE IF it.ctl = "continue"
                 THEN Finished(name, "failed", sttExhaustedErr(it.lastErr), fs)
                 ELSE IF it.err # NoErr
                 THEN Finished(name, "failed", it.err, fs)
                 ELSE WriteResult(name, outputTxtPath(name), it.text,
                                  E("failed to write transcript file", 0, ""))
    /\ UNCHANGED <<resp, reqErr, geminiResp, delay>>
    /\ UNCHANGED flagVars

\* One iteration of processImage's loop; when the loop ends, the rest of
\* processImage and of caption's loop body for the file.
CaptionAttempt ==
    /\ cmd = "caption"
    /\ pc = "attempt"
    /\ \E r \in Answers :
          LET name == files[idx]
              it == processImageIter(r, geminiResp)
              rs == IF r.neterr THEN NoResp ELSE r
              after == processImageAfter(rs, r.neterr, it.geminiResp, flagIdentity)
          IN  /\ Observe(r)
              /\ resp' = rs
              /\ reqErr' = r.neterr
              /\ geminiResp' = it.geminiResp
              /\ sleeps' = IF it.ctl = "continue" THEN sleeps + 1 ELSE sleeps
              /\ delay' = IF it.ctl = "continue" THEN delay * 2 ELSE delay
              /\ attempt' = IF it.ctl = "continue" THEN attempt + 1 ELSE attempt
              /\ IF it.ctl = "continue" /\ attempt + 1 < captionMaxRetries
                 THEN UNCHANGED <<outcome, errorCnt, fileErr, fs, idx, pc>>
                 ELSE IF it.ctl = "return"
                 THEN Finished(name, "failed", it.err, fs)
                 ELSE IF after.err # NoErr
                 THEN Finished(name, "failed", after.err, fs)
                 ELSE WriteResult(name, txtPath(name), after.content,
                                  E("failed to write caption file", 0, ""))
    /\ UNCHANGED lastErr
    /\ UNCHANGED flagVars

\* The batch loop is over: "N errors" when errorCnt > 0, nil otherwise.
Finish ==
    /\ pc = "loop"
    /\ idx > Len(files)
    /\ pc' = "done"
    /\ exitErr' = errorCnt
    /\ ClientReset
    /\ UNCHANGED <<cmd, flagForce, flagIdentity, fs, files, idx, errorCnt, run,
                   prevErrorCnt, outcome, fileErr, sent, fs0>>
    /\ UNCHANGED fnVars

\* The same command is run again on the directory as the last run left it.
Rerun ==
    /\ pc = "done"
    /\ run < MaxRuns
    /\ run' = run + 1
    /\ prevErrorCnt' = errorCnt
    /\ files' = ReadDir(cmd, fs)
    /\ idx' = 1
    /\ errorCnt' = 0
    /\ exitErr' = -1
    /\ pc' = "loop"
    /\ outcome' = [n \in NameSet(cmd) |-> "none"]
    /\ fileErr' = NoErr
    /\ sent' = {}
    /\ fs0' = fs
    /\ ClientReset
    /\ UNCHANGED <<cmd, flagForce, flagIdentity, fs>>
    /\ UNCHANGED fnVars

Next ==
    \/ SttFile
    \/ SttAttempt
    \/ CaptionFile
    \/ CaptionAttempt
    \/ Finish
    \/ Rerun

Spec == Init /\ [][Next]_vars

-----------------------------------------------------------------------------
(* Functions checked on their own: the batch commands stand still *)

batchVars == <<cmd, flagForce, flagIdentity, fs, files, idx, errorCnt, pc,
               exitErr, run, prevErrorCnt, attempt, lastErr, resp, reqErr,
               geminiResp, delay, calls, sleeps, last, priorRetryable, only500,
               outcome, fileErr, sent, fs0>>

\* no batch command is running
Idle ==
    /\ cmd = "stt"
    /\ flagForce = FALSE
    /\ flagIdentity = <<>>
    /\ fs = [n \in NameSet("stt") |-> Absent]
    /\ files = <<>>
    /\ idx = 1
    /\ errorCnt = 0
    /\ pc = "done"
    /\ exitErr = 0
    /\ run = 1
    /\ prevErrorCnt = 0
    /\ attempt = 0
    /\ lastErr = NoErr
    /\ resp = NoResp
    /\ reqErr = FALSE
    /\ geminiResp = <<>>
    /\ delay = 0
    /\ calls = 0
    /\ sleeps = 0
    /\ last = NoResp
    /\ priorRetryable = TRUE
    /\ only500 = TRUE
    /\ outcome = [n \in NameSet("stt") |-> "none"]
    /\ fileErr = NoErr
    /\ sent = {}
    /\ fs0 = fs

-----------------------------------------------------------------------------
(* int64: time.Duration is an int64 count of nanoseconds.  An int64 is the  *)
(* sequence of its 8 bytes, least significant first, in two's complement;   *)
(* the operations wrap around as Go's do.                                   *)

\* the int64 of a natural number below 2^31
Int64(n) == [i \in 1..8 |-> IF i <= 4 THEN (n \div 256^(i - 1)) % 256 ELSE 0]

RECURSIVE AddFrom(_, _, _, _)
AddFrom(x, y, i, carry) ==
    IF i > 8 THEN <<>>
    ELSE LET t == x[i] + y[i] + carry
         IN  <<t % 256>> \o AddFrom(x, y, i + 1, t \div 256)

\* x + y
Add64(x, y) == AddFrom(x, y, 1, 0)

\* sum of x[i] * y[k + 1 - i] for i in 1..n
RECURSIVE Column(_, _, _, _)
Column(x, y, k, n) ==
    IF n = 0 THEN 0 ELSE x[n] * y[k + 1 - n] + Column(x, y, k, n - 1)

RECURSIVE MulFrom(_, _, _, _)
MulFrom(x, y, k, carry) ==
    IF k > 8 THEN <<>>
    ELSE LET t == Column(x, y, k, k) + carry
         IN  <<t % 256>> \o MulFrom(x, y, k + 1, t \div 256)

\* x * y
Mul64(x, y) == MulFrom(x, y, 1, 0)

\* 1 << n for an int64 1: 0 when n >= 64
Shl64(n) ==
    [i \in 1..8 |-> IF n < 64 /\ i = (n \div 8) + 1 THEN 2^(n % 8) ELSE 0]

Negative64(x) == x[8] >= 128

\* x < y on the bytes from i down, as unsigned numbers
RECURSIVE BelowFrom(_, _, _)
BelowFrom(x, y, i) ==
    IF i = 0 THEN FALSE
    ELSE IF x[i] # y[i] THEN x[i] < y[i]
    ELSE BelowFrom(x, y, i - 1)

\* x < y
Less64(x, y) ==
    IF Negative64(x) # Negative64(y) THEN Negative64(x) ELSE BelowFrom(x, y, 8)

-----------------------------------------------------------------------------
(* stt: calculateBackoff *)

\* largest attempt index calculateBackoff is applied to
MaxAttempt == 65

timeSecond == Int64(1000000000)
timeMillisecond == Int64(1000000)
baseBackoff == Mul64(Int64(6), timeSecond)
maxBackoff == Mul64(Int64(60), timeSecond)

\* values of rand.Intn(1000) the model draws
Rands == {0, 1, 500, 999}

\* a calculateBackoff that takes the random number as seconds
calculateBackoffJitterSeconds(a, r) ==
    LET backoff == Mul64(baseBackoff, Shl64(a))
        capped == IF Less64(maxBackoff, backoff) THEN maxBackoff ELSE backoff
        jitter == Mul64(Int64(r), timeSecond)
    IN  Add64(capped, jitter)

\* calculateBackoff(a) when rand.Intn(1000) returns r
calculateBackoff(a, r) ==
    LET backoff == Mul64(baseBackoff, Shl64(a))
        capped == IF Less64(maxBackoff, backoff) THEN maxBackoff ELSE backoff
        jitter == Mul64(Int64(r), timeMillisecond)
    IN  Add64(capped, jitter)

\* fnIn is the attempt index and the random number of the next call, fnOut
\* the calls made so far: at most two, the second with a larger attempt index
BackoffInputs == [attempt : 0..MaxAttempt, r : Rands]

InitBackoff ==
    /\ Idle
    /\ fnIn \in BackoffInputs
    /\ fnOut = <<>>
    /\ fnDone = FALSE

CalculateBackoff ==
    /\ ~fnDone
    /\ fnOut' = Append(fnOut, [attempt |-> fnIn.attempt, r |-> fnIn.r,
                               d |-> calculateBackoff(fnIn.attempt, fnIn.r)])
    /\ IF fnOut = <<>> /\ fnIn.attempt < MaxAttempt
       THEN /\ fnIn' \in {in \in BackoffInputs : in.attempt > fnIn.attempt}
            /\ fnDone' = FALSE
       ELSE /\ fnIn' = fnIn
            /\ fnDone' = TRUE
    /\ UNCHANGED batchVars

NextBackoff == CalculateBackoff

SpecBackoff == InitBackoff /\ [][NextBackoff]_vars

-----------------------------------------------------------------------------
(* norfilenames: the new name of a file.  Here a name is the sequence of    *)
(* the code points of its characters.                                       *)

\* longest file name
MaxNameLen == 3

\* the code points the names are made of: "#", ",", "-", ".", "0", "9", ":",
\* "@", "A", "Z", "[", "^", "_", "`", "a", "z", "{", DEL and, beyond ASCII,
\* U+0080 and U+00E9
NameChars ==
    {35, 44, 45, 46, 48, 57, 58, 64, 65, 90, 91, 94, 95, 96, 97, 122, 123, 127,
     128, 233}

\* the character class [\x00-\x2C\x2F\x3A-\x40\x5B-\x5E\x60\x7B-\x7F]
reMatches(c) ==
    \/ c >= 0 /\ c <= 44
    \/ c = 47
    \/ c >= 58 /\ c <= 64
    \/ c >= 91 /\ c <= 94
    \/ c = 96
    \/ c >= 123 /\ c <= 127

\* re.ReplaceAllString(oldName, "_")
ReplaceAllString(oldName) ==
    [k \in 1..Len(oldName) |-> IF reMatches(oldName[k]) THEN 95 ELSE oldName[k]]

OldNames == UNION {[1..n -> NameChars] : n \in 1..MaxNameLen}

InitNorm ==
    /\ Idle
    /\ fnIn \in OldNames
    /\ fnOut = <<>>
    /\ fnDone = FALSE

\* the walk reaches the file: its new name
NewName ==
    /\ ~fnDone
    /\ fnOut' = ReplaceAllString(fnIn)
    /\ fnDone' = TRUE
    /\ UNCHANGED fnIn
    /\ UNCHANGED batchVars

NextNorm == NewName

SpecNorm == InitNorm /\ [][NextNorm]_vars

-----------------------------------------------------------------------------
(* norfilenames: the whole command on one directory of files.  A file is    *)
(* known by the name it had before the run; the directory maps each name to *)
(* the file that bears it, <<>> for none.                                   *)

\* longest name of a file of the directory
MaxDirNameLen == 2
\* largest number of files of the directory
MaxFiles == 2

\* the code points of the names of the directory: "#", "$", "_", "a"
DirChars == {35, 36, 95, 97}

DirNames == UNION {[1..n -> DirChars] : n \in 1..MaxDirNameLen}

\* a < b in the lexical order filepath.Walk visits the entries in
RECURSIVE NameLess(_, _)
NameLess(a, b) ==
    IF a = <<>> THEN b # <<>>
    ELSE IF b = <<>> THEN FALSE
    ELSE IF a[1] # b[1] THEN a[1] < b[1]
    ELSE NameLess(Tail(a), Tail(b))

\* the names of the set in the order of the walk
RECURSIVE Walk(_)
Walk(names) ==
    IF names = {} THEN <<>>
    ELSE LET first == CHOOSE n \in names : \A m \in names \ {n} : NameLess(n, m)
         IN  <<first>> \o Walk(names \ {first})

\* the walk's pendingRenames: the files whose new name differs from the old
RECURSIVE pendingRenames(_)
pendingRenames(walk) ==
    IF walk = <<>> THEN <<>>
    ELSE LET oldName == walk[1]
             newName == ReplaceAllString(oldName)
         IN  (IF oldName # newName
              THEN <<[oldName |-> oldName, newName |-> newName]>>
              ELSE <<>>) \o pendingRenames(Tail(walk))

\* os.Rename(oldPath, newPath) of a file: a file at newPath is replaced
osRename(dir, oldPath, newPath) ==
    [dir EXCEPT ![newPath] = dir[oldPath], ![oldPath] = <<>>]

\* the loop over pendingRenames from k on; failing holds the positions whose
\* os.Rename returns an error
RECURSIVE renameFrom(_, _, _, _)
renameFrom(dir, pending, k, failing) ==
    IF k > Len(pending) THEN dir
    ELSE IF k \in failing THEN renameFrom(dir, pending, k + 1, failing)
    ELSE renameFrom(osRename(dir, pending[k].oldName, pending[k].newName),
                    pending, k + 1, failing)

\* The command on the files `names`: dir is the directory afterwards, renamed
\* tells whether the renamings were performed, errorCnt is the N of "N errors".
norfilenamesResult(names, proceed, failing) ==
    LET before == [n \in DirNames |-> IF n \in names THEN n ELSE <<>>]
        pending == pendingRenames(Walk(names))
    IN  IF Len(pending) = 0 \/ ~proceed
        THEN [dir |-> before, pending |-> pending, renamed |-> FALSE, errorCnt |-> 0]
        ELSE [dir |-> renameFrom(before, pending, 1, failing), pending |-> pending,
              renamed |-> TRUE, errorCnt |-> Cardinality(failing)]

\* the sets of at most k names
RECURSIVE DirsUpTo(_)
DirsUpTo(k) ==
    IF k = 0 THEN {{}}
    ELSE LET smaller == DirsUpTo(k - 1)
         IN  smaller \cup {names \cup {n} : names \in smaller, n \in DirNames}

InitRename ==
    /\ Idle
    /\ fnIn \in DirsUpTo(MaxFiles)
    /\ fnOut = [dir |-> [n \in DirNames |-> <<>>], pending |-> <<>>,
                renamed |-> FALSE, errorCnt |-> 0]
    /\ fnDone = FALSE

\* proceed: --force, or the confirmation was given
Norfilenames ==
    /\ ~fnDone
    /\ \E proceed \in BOOLEAN :
       \E failing \in SUBSET (1..Len(pendingRenames(Walk(fnIn)))) :
          /\ (~proceed => failing = {})
          /\ fnOut' = norfilenamesResult(fnIn, proceed, failing)
    /\ fnDone' = TRUE
    /\ UNCHANGED fnIn
    /\ UNCHANGED batchVars

NextRename == Norfilenames

SpecRename == InitRename /\ [][NextRename]_vars

-----------------------------------------------------------------------------
(* parsetfef: the lowest point of a tag in PrintScalarsTable.  A float is   *)
(* NaN or a number; the numbers of the model are integers.                 *)

\* longest series of a tag
MaxSeries == 3

NaN == [nan |-> TRUE, v |-> 0]
Num(n) == [nan |-> FALSE, v |-> n]

\* math.IsNaN
IsNaN(x) == x.nan

\* x < y on floats: false when either is NaN
FloatLess(x, y) == ~x.nan /\ ~y.nan /\ x.v < y.v

Floats == {NaN} \cup {Num(n) : n \in {-1, 0, 2}}

\* scalarEvents.Step[i]: the steps of a series are increasing
Step(i) == 10 * i

\* the loop over scalarEvents.Value from index i on
RECURSIVE LowestFrom(_, _, _, _)
LowestFrom(Value, i, minVal, minStep) ==
    IF i > Len(Value) THEN [data |-> TRUE, minVal |-> minVal, minStep |-> minStep]
    ELSE IF ~IsNaN(Value[i]) /\ FloatLess(Value[i], minVal)
    THEN LowestFrom(Value, i + 1, Value[i], Step(i))
    ELSE LowestFrom(Value, i + 1, minVal, minStep)

\* what the "Lowest points" line of a tag shows; data is FALSE for
\* "No data or empty"
Lowest(Value) ==
    IF Len(Value) > 0
    THEN LowestFrom(Value, 1, Value[1], Step(1))
    ELSE [data |-> FALSE, minVal |-> NaN, minStep |-> 0]

InitLowest ==
    /\ Idle
    /\ fnIn \in UNION {[1..n -> Floats] : n \in 0..MaxSeries}
    /\ fnOut = [data |-> FALSE, minVal |-> NaN, minStep |-> 0]
    /\ fnDone = FALSE

PrintScalarsTable ==
    /\ ~fnDone
    /\ fnOut' = Lowest(fnIn)
    /\ fnDone' = TRUE
    /\ UNCHANGED fnIn
    /\ UNCHANGED batchVars

NextLowest == PrintScalarsTable

SpecLowest == InitLowest /\ [][NextLowest]_vars

-----------------------------------------------------------------------------
(* sovits-genlist: runSovitsGenlist *)

\* longest content of a .txt file
MaxContent == 3

\* the contents a transcription file can have
ContentChars == {"h", " ", "\n", "\r"}
Contents == UNION {[1..n -> ContentChars] : n \in 0..MaxContent}

\* a file os.ReadFile fails on
Unreadable == [kind |-> "unreadable", data |-> <<>>]

\* the entries of the directory, in os.ReadDir's order
genlistNames == << <<"a", "txt">>, <<"a", "wav">>, <<"b", "txt">>, <<"b", "wav">> >>

\* --speaker, and the values of --lang
flagSpeaker == <<"s">>
Langs == {<<"e", "n">>, <<"x", "x">>}
validLangs == {<<"z", "h">>, <<"j", "a">>, <<"e", "n">>, <<"k", "o">>, <<"y", "u", "e">>}

\* strings.ReplaceAll(s, "\r\n", " ")
RECURSIVE ReplaceCRLF(_)
ReplaceCRLF(s) ==
    IF s = <<>> THEN <<>>
    ELSE IF Len(s) >= 2 /\ s[1] = "\r" /\ s[2] = "\n"
    THEN <<" ">> \o ReplaceCRLF(SubSeq(s, 3, Len(s)))
    ELSE <<s[1]>> \o ReplaceCRLF(Tail(s))

\* strings.ReplaceAll(s, "\n", " ")
ReplaceLF(s) == [k \in 1..Len(s) |-> IF s[k] = "\n" THEN " " ELSE s[k]]

\* a text that keeps the line feeds that stand alone
genlistTextKeepingLF(content) == TrimSpace(ReplaceCRLF(content))

\* the text of a record, from the content of the .txt file
genlistText(content) == TrimSpace(ReplaceLF(ReplaceCRLF(content)))

\* the name with its dots
RECURSIVE JoinDots(_)
JoinDots(name) ==
    IF Len(name) <= 1 THEN name
    ELSE <<name[1], ".">> \o JoinDots(Tail(name))

\* fmt.Sprintf("%s.wav|%s|%s|%s", baseName, flagSpeaker, flagLang, text)
genlistLine(baseName, lang, text) ==
    JoinDots(baseName) \o <<".", "w", "a", "v", "|">> \o flagSpeaker \o <<"|">>
       \o lang \o <<"|">> \o text

\* first pass: the base names of the entries that are files named *.wav
wavFiles(dir) ==
    {TrimSuffix(genlistNames[k], "wav") : k \in
        {k \in 1..Len(genlistNames) :
            /\ dir[genlistNames[k]] \notin {Absent, Dir}
            /\ Ext(genlistNames[k]) = "wav"}}

\* second pass, from entry k on: the lines of the list
RECURSIVE listLinesFrom(_, _, _)
listLinesFrom(dir, lang, k) ==
    IF k > Len(genlistNames) THEN <<>>
    ELSE LET name == genlistNames[k]
             rest == listLinesFrom(dir, lang, k + 1)
         IN  IF /\ dir[name] \notin {Absent, Dir}
                /\ Ext(name) = "txt"
                /\ TrimSuffix(name, "txt") \in wavFiles(dir)
                /\ dir[name] # Unreadable
             THEN <<genlistLine(TrimSuffix(name, "txt"), lang,
                                genlistText(dir[name].data))>> \o rest
             ELSE rest

\* the bytes written for the lines: each line and a line feed
RECURSIVE WriteLines(_)
WriteLines(lines) ==
    IF lines = <<>> THEN <<>> ELSE lines[1] \o <<"\n">> \o WriteLines(Tail(lines))

\* The command on the input in: err is the error it returns ("" for nil), out
\* the output file afterwards, stdout what it has printed of the list.
runSovitsGenlistResult(in, createOk) ==
    LET Res(e, o, so) == [err |-> e, out |-> o, stdout |-> so]
        lines == listLinesFrom(in.dir, in.lang, 1)
    IN  IF in.lang \notin validLangs THEN Res("invalid language", in.out, <<>>)
        ELSE IF in.output # "-" /\ in.out # Absent /\ ~in.force
        THEN Res("output file already exists", in.out, <<>>)
        ELSE IF lines = <<>> THEN Res("no valid wav files found", in.out, <<>>)
        ELSE IF in.output = "-" THEN Res("", in.out, WriteLines(lines))
        ELSE IF ~createOk THEN Res("failed to create output file", in.out, <<>>)
        ELSE Res("", File(WriteLines(lines)), <<>>)

GenlistDirs ==
    {[n \in {genlistNames[k] : k \in 1..Len(genlistNames)} |->
         CASE n = <<"a", "txt">> -> at
           [] n = <<"a", "wav">> -> aw
           [] n = <<"b", "txt">> -> bt
           [] OTHER -> bw] :
       at \in {Absent, Dir, Unreadable} \cup {File(c) : c \in Contents},
       aw \in {Absent, Dir, File(<<>>)},
       bt \in {Absent, Unreadable, File(<<"h">>)},
       bw \in {Absent, File(<<>>)}}

InitGenlist ==
    /\ Idle
    /\ fnIn \in [dir : GenlistDirs, lang : Langs, force : BOOLEAN,
                  output : {"sovits.list", "-"}, out : {Absent, File(OldContent)}]
    /\ fnOut = [err |-> "", out |-> Absent, stdout |-> <<>>]
    /\ fnDone = FALSE

RunSovitsGenlist ==
    /\ ~fnDone
    /\ \E createOk \in BOOLEAN : fnOut' = runSovitsGenlistResult(fnIn, createOk)
    /\ fnDone' = TRUE
    /\ UNCHANGED fnIn
    /\ UNCHANGED batchVars

NextGenlist == RunSovitsGenlist

SpecGenlist == InitGenlist /\ [][NextGenlist]_vars

-----------------------------------------------------------------------------
(* Vocabulary of the properties *)

\* the retry loop has just returned for files[idx - 1]
JustReturned == pc = "loop" /\ calls >= 1
Cur == files[idx - 1]

\* the number of calls a client is said to make at most: maxRetries + 1
SaidAttempts(c) == IF c = "stt" THEN sttMaxRetries + 1 ELSE captionMaxRetries + 1

RetryableStatus(r) ==
    ~r.neterr /\ (r.status = 429 \/ (r.status >= 500 /\ r.status <= 599))

FatalStatus(r) == ~r.neterr /\ r.status # 200 /\ ~RetryableStatus(r)

EmptyOk(r) ==
    ~r.neterr /\ r.status = 200 /\ r.body = "ok" /\ r.block = "" /\ PayloadLacksText(r)

BlockedOk(r) == ~r.neterr /\ r.status = 200 /\ r.body = "ok" /\ r.block # ""

\* a 200 whose text is there and is not empty
ValidOk(r) ==
    ~r.neterr /\ r.status = 200 /\ r.body = "ok" /\ r.block = "" /\ ~PayloadLacksText(r)

\* the text of the response as the command uses it
ModelText(c, r) == IF c = "caption" THEN TrimSpace(r.cands[1][1]) ELSE r.cands[1][1]

\* what a command writes for the text of the response r
Written(c, identity, r) ==
    IF c = "caption" /\ identity # <<>>
    THEN identity \o <<",", " ">> \o ModelText(c, r)
    ELSE ModelText(c, r)

WriteErrors ==
    {E("failed to write transcript file", 0, ""), E("failed to write caption file", 0, "")}

\* the remote client returned an error for the file processed last
ClientFailed == JustReturned /\ outcome[Cur] = "failed" /\ fileErr \notin WriteErrors

\* the remote client returned a text for the file processed last
ClientSucceeded ==
    JustReturned /\ (outcome[Cur] = "succeeded" \/ fileErr \in WriteErrors)

\* the failure reason of one attempt, and the reason an error message reports
Reason(r) ==
    IF r.neterr THEN <<"network", 0>>
    ELSE IF r.status # 200 THEN <<"status", r.status>>
    ELSE IF r.body # "ok" THEN <<"body", 0>>
    ELSE IF r.block # "" THEN <<"blocked", 0>>
    ELSE <<"empty", 0>>

ReportedReason(e) ==
    IF e.msg = "all retry attempts failed"
    THEN (IF e.detail = "request failed" THEN <<"network", 0>> ELSE <<"status", e.status>>)
    ELSE IF e.msg = "all retries failed" THEN <<"network", 0>>
    ELSE IF e.msg \in {"API request failed with non-retryable status",
                       "API request failed with status"}
    THEN <<"status", e.status>>
    ELSE IF e.msg \in {"no transcript content found in API response",
                       "no caption generated (empty response from API)"}
    THEN <<"empty", 0>>
    ELSE IF e.msg = "request was blocked" THEN <<"blocked", 0>>
    ELSE <<"body", 0>>

\* the errors a retry loop returns when its last iteration ends in `continue`
ExhaustedErrs(c) ==
    IF c = "stt"
    THEN {sttExhaustedErr(getTranscriptIter(r, NoErr).lastErr) :
             r \in {a \in Answers : getTranscriptIter(a, NoErr).ctl = "continue"}}
    ELSE {processImageAfter(IF r.neterr THEN NoResp ELSE r, r.neterr,
                            processImageIter(r, <<>>).geminiResp, <<>>).err :
             r \in {a \in Answers : processImageIter(a, <<>>).ctl = "continue"}}

\* the name is an entry of the directory
Present(n) == fs[n] # Absent

\* the path the data model gives the output: the extension replaced by .txt
SiblingTxt(name) == Append(SubSeq(name, 1, Len(name) - 1), "txt")

-----------------------------------------------------------------------------
(* C1..C10 *)

\* C1: when every call of a file was answered with HTTP 500, the client made
\* exactly maxRetries + 1 calls for it and returned an error.
C1_Always500Counter ==
    (JustReturned /\ only500) =>
        (calls = SaidAttempts(cmd) /\ ClientFailed)

\* C2: a 429 or 5xx received on an attempt that is not the last one the loop
\* allows is followed by a further attempt: the client has not returned.
C2_RetryableStatusCounter ==
    (calls >= 1 /\ calls < AttemptsAllowed(cmd) /\ RetryableStatus(last)) =>
        pc = "attempt"

\* C3: a 200 without the expected text and without block reason, received on
\* an attempt that is not the last one, is followed by a further attempt.
C3_EmptyOkCounter ==
    (calls >= 1 /\ calls < AttemptsAllowed(cmd) /\ EmptyOk(last)) =>
        pc = "attempt"

\* C4: a file is reported as succeeded, and its .txt written, only with a
\* non-empty model text (after caption's trimming).
C4_NonEmptyCounter ==
    (JustReturned /\ outcome[Cur] = "succeeded") =>
        (ValidOk(last) /\ ModelText(cmd, last) # <<>>)

\* C5: a first answer with a status that is not 200, 429 or 5xx ends the file
\* after that one call, without sleep, with an error that tells the status and
\* is none of the errors of exhausted retries.
C5_FatalFirst ==
    (calls = 1 /\ FatalStatus(last)) =>
        /\ pc = "loop"
        /\ sleeps = 0
        /\ outcome[Cur] = "failed"
        /\ ReportedReason(fileErr) = <<"status", last.status>>
        /\ fileErr \notin ExhaustedErrs(cmd)

C5_Witness ==
    /\ calls = 1
    /\ FatalStatus(last)
    /\ pc = "loop"
    /\ errorCnt >= 1

\* C6: a 200 that carries a block reason ends the file at once with an error
\* that names the block.
C6_BlockedCounter ==
    (calls >= 1 /\ BlockedOk(last)) =>
        /\ pc = "loop"
        /\ outcome[Cur] = "failed"
        /\ fileErr = E("request was blocked", 0, last.block)

\* C7: k transient outcomes followed by a valid 200, k + 1 within the loop's
\* limit, give success after exactly k + 1 calls with the text of that 200:
\* the client goes on while all it got was transient, and returns the text of
\* the valid 200 when it gets it.
C7_RetryThenSucceedCounter ==
    /\ (calls >= 1 /\ calls < AttemptsAllowed(cmd) /\ priorRetryable /\ Transient(last))
           => pc = "attempt"
    /\ (calls >= 1 /\ priorRetryable /\ ValidOk(last))
           => /\ ClientSucceeded
              /\ outcome[Cur] = "succeeded"
                     => fs[OutputOf(cmd, Cur)] = File(Written(cmd, flagIdentity, last))

\* C8: when all the attempts the loop allows ended in transient outcomes, the
\* client returns an error, and that error reports the reason of the final
\* attempt.
C8_LastReasonCounter ==
    (JustReturned /\ calls = AttemptsAllowed(cmd) /\ priorRetryable /\ Transient(last)) =>
        (ClientFailed /\ ReportedReason(fileErr) = Reason(last))

\* What does hold of the reported reason: an error the client returns after
\* the last attempt the loop allows never reports an earlier attempt.
ReportedReasonIsLast ==
    (ClientFailed /\ calls = AttemptsAllowed(cmd) /\ priorRetryable /\ Transient(last)) =>
        ReportedReason(fileErr) = Reason(last)

\* C9: with force=false an eligible file whose sibling .txt (its name with the
\* extension replaced by .txt) exists when the batch reaches it is skipped: no
\* call, no change of the directory, no failure counted.
C9_SkipIfExistsCounter ==
    [][(/\ pc = "loop"
        /\ idx <= Len(files)
        /\ ~flagForce
        /\ Eligible(cmd, fs, files[idx])
        /\ Present(SiblingTxt(files[idx])))
         => (/\ outcome'[files[idx]] = "skipped"
             /\ pc' = "loop"
             /\ sent' = sent
             /\ fs' = fs
             /\ errorCnt' = errorCnt)]_vars

-----------------------------------------------------------------------------
(* C11 *)

\* the step ends the processing of files[idx] as a failure of one of the
\* kinds read error, fatal status, blocked request, retries exhausted
EndsInFailure ==
    /\ pc # "done" /\ pc' = "loop" /\ idx' = idx + 1
    /\ outcome'[files[idx]] = "failed"
    /\ fileErr' \notin WriteErrors

\* C11: the directory changes only in the step in which the remote client
\* has returned success (a 200 answer, no error from the client) for the file
\* being processed, and then only at that file's output path; a step that ends
\* a file in a read error, a fatal status, a blocked request or exhausted
\* retries leaves the whole directory, the file's output path included, as it
\* was.  No step between the start of a file and its end touches the
\* directory, so the output path of a failed file is as before its processing.
C11_OutputOnlyAfterSuccess ==
    [][ /\ fs' # fs =>
             /\ pc = "attempt" /\ pc' = "loop"
             /\ ~last'.neterr /\ last'.status = 200
             /\ fileErr' \in {NoErr} \cup WriteErrors
             /\ \A n \in DOMAIN fs :
                   fs'[n] # fs[n] => n = OutputOf(cmd, files[idx])
        /\ EndsInFailure => fs' = fs
        /\ pc' = "attempt" => fs' = fs ]_vars

\* with --force, a file has failed after calls to the API and the previous
\* content of its output path is still there
C11_Witness ==
    /\ JustReturned
    /\ flagForce
    /\ outcome[Cur] = "failed"
    /\ fileErr \notin WriteErrors
    /\ fs[OutputOf(cmd, Cur)] = File(OldContent)

-----------------------------------------------------------------------------
(* C12 *)

\* One invocation, from its start to its return.
NextOnce ==
    \/ SttFile
    \/ SttAttempt
    \/ CaptionFile
    \/ CaptionAttempt
    \/ Finish

\* The batch loop and the retry loops are sequential code: a step that can be
\* taken is taken.
FairSpec == Init /\ [][NextOnce]_vars /\ WF_vars(NextOnce)

\* every eligible entry of the listing has been reached and recorded
AllReached ==
    \A i \in 1..Len(files) :
       Eligible(cmd, fs, files[i]) =>
          outcome[files[i]] \in {"skipped", "succeeded", "failed"}

\* C12: whatever has happened to the files processed so far, failures of any
\* kind included, an invocation that has not returned goes on until it
\* returns, and when it returns every eligible file of its listing has been
\* reached and is recorded as skipped, succeeded or failed.
C12_FailureIsolation == (pc # "done") ~> (pc = "done" /\ AllReached)

\* the invocation has returned after a failed file that was not the last
\* eligible one, and a later file of the listing was processed
C12_Witness ==
    /\ pc = "done"
    /\ \E i, j \in 1..Len(files) :
          /\ i < j
          /\ outcome[files[i]] = "failed"
          /\ outcome[files[j]] \in {"succeeded", "failed"}

-----------------------------------------------------------------------------
(* C13 *)

\* the eligible entries of the listing, reached so far, that were not skipped
\* and did not end in success
NotSucceeded ==
    {i \in 1..Len(files) :
        /\ Eligible(cmd, fs, files[i])
        /\ outcome[files[i]] \notin {"none", "skipped", "succeeded"}}

\* the exit status of the process for the command's result
ExitStatus == IF exitErr > 0 THEN 1 ELSE 0

\* C13: all along the batch the failure count is the number of eligible,
\* non-skipped files whose processing did not end in success (a skipped or
\* succeeded file adds nothing); when the command returns, its result is
\* "N errors" with that N and exit status 1 when N > 0, nil and exit status 0
\* when N = 0.
C13_ErrorCount ==
    /\ errorCnt = Cardinality(NotSucceeded)
    /\ pc = "done" =>
          /\ AllReached
          /\ exitErr = Cardinality(NotSucceeded)
          /\ ExitStatus = (IF Cardinality(NotSucceeded) > 0 THEN 1 ELSE 0)

\* a returned invocation with a skipped file and a failed file
C13_Witness ==
    /\ pc = "done"
    /\ exitErr = 1
    /\ \E n \in DOMAIN outcome : outcome[n] = "skipped"
    /\ \E n \in DOMAIN outcome : outcome[n] = "failed"

\* a returned invocation with succeeded files and no failure
C13_WitnessNil ==
    /\ pc = "done"
    /\ exitErr = 0
    /\ \E n \in DOMAIN outcome : outcome[n] = "succeeded"

-----------------------------------------------------------------------------
(* C14 *)

\* C14: whether a file is skipped, and with it whether it is sent and what is
\* recorded for it, is decided by the flags and by the directory as the
\* invocation found it, not by what another file of the same invocation
\* came to: an eligible file is recorded as skipped exactly when force is
\* off and its output path was there when the invocation started.
C14_IndependentCounter ==
    \A n \in DOMAIN outcome :
       outcome[n] # "none" =>
          ((outcome[n] = "skipped") <=>
             (~flagForce /\ fs0[OutputOf(cmd, n)] # Absent))

-----------------------------------------------------------------------------
(* C17 *)

White(c) == c \in {" ", "\t", "\n", "\r"}

\* t is raw without its leading and trailing white space
IsTrimOf(t, raw) ==
    \E i, j \in 0..Len(raw) :
       /\ i + j <= Len(raw)
       /\ t = SubSeq(raw, i + 1, Len(raw) - j)
       /\ \A k \in 1..i : White(raw[k])
       /\ \A k \in (Len(raw) - j + 1)..Len(raw) : White(raw[k])
       /\ t # <<>> => ~White(t[1]) /\ ~White(t[Len(t)])

\* C17: when caption has succeeded for a file, the answer it used carries a
\* text T and the file's .txt holds exactly I, a comma, a space and T without
\* its leading and trailing white space when the identity I is not empty, and
\* exactly T without its leading and trailing white space when it is empty.
C17_CaptionContent ==
    (JustReturned /\ cmd = "caption" /\ outcome[Cur] = "succeeded") =>
       /\ last.hasCands /\ Len(last.cands) >= 1 /\ Len(last.cands[1]) >= 1
       /\ \E k \in 0..Len(last.cands[1][1]) :
             LET t == SubSeq(fs[txtPath(Cur)].data,
                             Len(fs[txtPath(Cur)].data) - k + 1,
                             Len(fs[txtPath(Cur)].data))
             IN  /\ IsTrimOf(t, last.cands[1][1])
                 /\ fs[txtPath(Cur)] =
                       File(IF flagIdentity # <<>>
                            THEN flagIdentity \o <<",", " ">> \o t
                            ELSE t)

\* identity "f" and the text " yo\n" have given the file "f, yo"
C17_Witness ==
    /\ JustReturned /\ cmd = "caption" /\ outcome[Cur] = "succeeded"
    /\ flagIdentity = <<"f">>
    /\ last.cands = << <<TextPadded>> >>
    /\ fs[txtPath(Cur)] = File(<<"f", ",", " ", "y", "o">>)

\* no identity: the file holds the trimmed text alone
C17_WitnessNoIdentity ==
    /\ JustReturned /\ cmd = "caption" /\ outcome[Cur] = "succeeded"
    /\ flagIdentity = <<>>
    /\ last.cands = << <<TextPadded>> >>
    /\ fs[txtPath(Cur)] = File(<<"y", "o">>)

-----------------------------------------------------------------------------
(* C15 *)

\* min(B * 2^a, M) in seconds, B = 6 and M = 60; from a = 4 on the product is
\* beyond the cap (the guard keeps 2^a within the checker's integers)
CappedSeconds(a) == IF a > 20 \/ 6 * 2^a > 60 THEN 60 ELSE 6 * 2^a

\* x <= y
AtMost64(x, y) == ~Less64(y, x)

\* C15: every value calculateBackoff has returned for an attempt index a lies
\* between min(B * 2^a, M) and min(B * 2^a, M) + J, for B = 6 s, M = 60 s and
\* J = 1 s, as signed 64-bit counts of nanoseconds.
C15_BackoffRangeCounter ==
    \A k \in 1..Len(fnOut) :
       LET low == Mul64(Int64(CappedSeconds(fnOut[k].attempt)), timeSecond)
       IN  /\ AtMost64(low, fnOut[k].d)
           /\ AtMost64(fnOut[k].d, Add64(low, timeSecond))

\* the same for the attempt indices of getTranscript's loop, 0..maxRetries
C15_RangeWithinLoop ==
    \A k \in 1..Len(fnOut) :
       fnOut[k].attempt <= sttMaxRetries =>
          LET low == Mul64(Int64(CappedSeconds(fnOut[k].attempt)), timeSecond)
          IN  /\ AtMost64(low, fnOut[k].d)
              /\ AtMost64(fnOut[k].d, Add64(low, timeSecond))

-----------------------------------------------------------------------------
(* C16 *)

\* B * 2^b has not exceeded the cap M
UnderCap(b) == b <= 20 /\ 6 * 2^b <= 60

\* C16: of two values calculateBackoff has returned for attempt indices
\* a < b, whatever the two random numbers, the one for a is not above the
\* one for b, when B * 2^b has not exceeded the cap and also when a and b are
\* attempt indices of getTranscript's retry loop (0..maxRetries): the delays
\* slept for one file never shrink.
C16_BackoffMonotone ==
    (/\ Len(fnOut) = 2
     /\ fnOut[1].attempt < fnOut[2].attempt
     /\ UnderCap(fnOut[2].attempt) \/ fnOut[2].attempt <= sttMaxRetries)
       => AtMost64(fnOut[1].d, fnOut[2].d)

\* attempt 0 with the largest random number, then attempt 1 with the smallest
C16_Witness ==
    /\ Len(fnOut) = 2
    /\ fnOut[1].attempt = 0 /\ fnOut[1].r = 999
    /\ fnOut[2].attempt = 1 /\ fnOut[2].r = 0
    /\ Less64(fnOut[1].d, fnOut[2].d)

-----------------------------------------------------------------------------
(* C18 *)

\* "-", ".", "_", A-Z, a-z
Plain(c) == c \in {45, 46, 95} \/ (c >= 65 /\ c <= 90) \/ (c >= 97 /\ c <= 122)

\* an ASCII character that is not in [-_.a-zA-Z]
Special(c) == c <= 127 /\ ~Plain(c)

\* C18: the new name has the length of the old one; at every position a
\* special character - an ASCII character outside [-_.a-zA-Z], digits
\* included - has become "_", and every other character (one in
\* [-_.a-zA-Z], or one beyond ASCII) is as it was.
C18_NewNameCounter ==
    fnDone =>
       /\ Len(fnOut) = Len(fnIn)
       /\ \A k \in 1..Len(fnIn) :
             fnOut[k] = IF Special(fnIn[k]) THEN 95 ELSE fnIn[k]

\* the same with the digits left as they are
C18_NewNameKeepingDigits ==
    fnDone =>
       /\ Len(fnOut) = Len(fnIn)
       /\ \A k \in 1..Len(fnIn) :
             fnOut[k] = IF Special(fnIn[k]) /\ ~(fnIn[k] >= 48 /\ fnIn[k] <= 57)
                        THEN 95 ELSE fnIn[k]

-----------------------------------------------------------------------------
(* C19 *)

\* the positions of the series that hold a number
Numbers(Value) == {k \in 1..Len(Value) : ~Value[k].nan}

\* the printed value is the least number of the series and the printed step
\* is a step at which it occurs
ShowsMinimum(Value, shown) ==
    /\ shown.data
    /\ ~shown.minVal.nan
    /\ \A k \in Numbers(Value) : shown.minVal.v <= Value[k].v
    /\ \E k \in Numbers(Value) :
          Value[k].v = shown.minVal.v /\ Step(k) = shown.minStep

\* C19: for a tag whose series holds at least one value that is not NaN, the
\* "Lowest points" line shows the minimum over the values that are not NaN
\* and a step at which that minimum occurs, wherever the NaN entries are,
\* the first position included.
C19_LowestCounter ==
    (fnDone /\ Numbers(fnIn) # {}) => ShowsMinimum(fnIn, fnOut)

\* the same for the series that do not start with NaN
C19_LowestWhenFirstIsNumber ==
    (fnDone /\ Numbers(fnIn) # {} /\ 1 \in Numbers(fnIn)) =>
       ShowsMinimum(fnIn, fnOut)

-----------------------------------------------------------------------------
(* C20 *)

\* the base names with a readable <name>.txt and a <name>.wav among the files
\* of the directory
Paired(dir) ==
    {b \in {<<"a">>, <<"b">>} :
        /\ dir[b \o <<"txt">>].kind = "file"
        /\ dir[b \o <<"wav">>].kind = "file"}

\* the content with every "\r\n" and every "\n" replaced by one space, read
\* from left to right
RECURSIVE OneLine(_)
OneLine(c) ==
    IF c = <<>> THEN <<>>
    ELSE IF Len(c) >= 2 /\ c[1] = "\r" /\ c[2] = "\n"
    THEN <<" ">> \o OneLine(SubSeq(c, 3, Len(c)))
    ELSE IF c[1] = "\n" THEN <<" ">> \o OneLine(Tail(c))
    ELSE <<c[1]>> \o OneLine(Tail(c))

\* the lines of an output, each ended by a line feed
RECURSIVE LinesFrom(_, _)
LinesFrom(bytes, line) ==
    IF bytes = <<>> THEN (IF line = <<>> THEN <<>> ELSE <<line>>)
    ELSE IF bytes[1] = "\n" THEN <<line>> \o LinesFrom(Tail(bytes), <<>>)
    ELSE LinesFrom(Tail(bytes), Append(line, bytes[1]))

\* the list the command has produced, in the file or on stdout
Produced == IF fnIn.output = "-" THEN fnOut.stdout ELSE fnOut.out.data

\* "<name>.wav|speaker|lang|" for the base name b
RecordHead(b) ==
    b \o <<".", "w", "a", "v", "|", "s", "|">> \o fnIn.lang \o <<"|">>

\* the command has returned without error
Generated == fnDone /\ fnOut.err = ""

\* C20: the list has one line per base name that has both a readable
\* <name>.txt and a <name>.wav among the files of the directory and no other
\* line, and the line of a base name is "<name>.wav|speaker|lang|text" where
\* text is the content of <name>.txt with every "\r\n" and "\n" replaced by
\* a single space.
C20_GenlistCounter ==
    Generated =>
       /\ Len(LinesFrom(Produced, <<>>)) = Cardinality(Paired(fnIn.dir))
       /\ {LinesFrom(Produced, <<>>)[k] : k \in 1..Len(LinesFrom(Produced, <<>>))}
             = {RecordHead(b) \o OneLine(fnIn.dir[b \o <<"txt">>].data) :
                   b \in Paired(fnIn.dir)}

\* C20 (amended): as above, where text is the content of <name>.txt with
\* every "\r\n" and "\n" replaced by a single space and then without its
\* leading and trailing white space.
C20_GenlistTrimmed ==
    Generated =>
       /\ Len(LinesFrom(Produced, <<>>)) = Cardinality(Paired(fnIn.dir))
       /\ \A b \in Paired(fnIn.dir) :
             \E k \in 1..Len(LinesFrom(Produced, <<>>)) :
                LET line == LinesFrom(Produced, <<>>)[k]
                    n == Len(RecordHead(b))
                IN  /\ Len(line) >= n
                    /\ SubSeq(line, 1, n) = RecordHead(b)
                    /\ IsTrimOf(SubSeq(line, n + 1, Len(line)),
                                OneLine(fnIn.dir[b \o <<"txt">>].data))

\* a list of two records, one of them from a content of several lines
C20_Witness ==
    /\ Generated
    /\ fnIn.output = "sovits.list"
    /\ fnIn.dir[<<"a", "txt">>] = File(<<"h", "\n", "h">>)
    /\ fnOut.out = File(<<"a", ".", "w", "a", "v", "|", "s", "|", "e", "n", "|",
                          "h", " ", "h", "\n",
                          "b", ".", "w", "a", "v", "|", "s", "|", "e", "n", "|",
                          "h", "\n">>)

-----------------------------------------------------------------------------
(* C21 *)

\* C21: in both retry loops every sleep is followed by a further call for
\* the same file: while the loop is about to call, it has slept as often as
\* it has called, and when it has returned after n calls it has slept n - 1
\* times - there is no sleep between the last call and the return.
C21_SleepThenRetryCounter ==
    /\ pc = "attempt" => sleeps = calls
    /\ JustReturned => sleeps = calls - 1

\* the same for the returns that do not come from exhausted retries
C21_SleepThenRetryUnlessExhausted ==
    /\ pc = "attempt" => sleeps = calls
    /\ (JustReturned /\ fileErr \notin ExhaustedErrs(cmd)) => sleeps = calls - 1

\* exhausted retries: as many sleeps as calls
C21_SleepAfterLastCall ==
    (JustReturned /\ fileErr \in ExhaustedErrs(cmd)) => sleeps = calls

-----------------------------------------------------------------------------
(* C22 *)

\* the names that bear a file
Bearing(dir) == {n \in DOMAIN dir : dir[n] # <<>>}

\* the renamings were performed and every one of them succeeded
AllRenamed == fnDone /\ fnOut.renamed /\ fnOut.errorCnt = 0

\* no rename targets a name of the directory or the target of another rename
NoCollision ==
    \A k \in 1..Len(fnOut.pending) :
       /\ fnOut.pending[k].newName \notin fnIn
       /\ \A l \in 1..Len(fnOut.pending) :
             l # k => fnOut.pending[l].newName # fnOut.pending[k].newName

\* C22: in a run whose renamings all succeed, no rename targets a name that
\* is in the directory already or that another rename of the run targets,
\* and the directory holds as many files after the run as before it, each
\* file of before under some name.
C22_NoFileLostCounter ==
    AllRenamed =>
       /\ NoCollision
       /\ Cardinality(Bearing(fnOut.dir)) = Cardinality(fnIn)
       /\ \A n \in fnIn : \E m \in Bearing(fnOut.dir) : fnOut.dir[m] = n

\* without a collision of targets no file is lost
C22_NoFileLostWithoutCollision ==
    (AllRenamed /\ NoCollision) =>
       /\ Cardinality(Bearing(fnOut.dir)) = Cardinality(fnIn)
       /\ \A n \in fnIn : \E m \in Bearing(fnOut.dir) : fnOut.dir[m] = n

====
